---- MODULE Spec2Model ----
(***************************************************************************)
(* Model of analysis/analyze_tactics.py: the loader loop of main(), the    *)
(* summarizer summarize_mob, write_csv and generate_plots.                 *)
(*                                                                         *)
(* Numbers.  avgReward and successRate are decimal fixed-point integers    *)
(* in units of 1e-5; a value rounded to 4 places is an integer in units of *)
(* 1e-4.  An epoch-millisecond timestamp ms is the pair (d, ms) with       *)
(* ms_total = d * 86400000 + ms, 0 <= ms < 86400000, so that every         *)
(* intermediate value fits a 32-bit integer.                               *)
(* JSON values that may be absent, null or of another type carry a tag t.  *)
(***************************************************************************)
EXTENDS Integers, Sequences, FiniteSets, TLC

VARIABLES
    args,          \* the parsed command line: source, owner, repo, path, plots
    requests,      \* module global: TRUE iff `import requests` succeeded
    plt,           \* module global: TRUE iff `import matplotlib.pyplot` succeeded
    pc,            \* position in main()
    entries,       \* the directory listing the source returned (remote items / os.listdir)
    json_paths,    \* the candidate tactics files, in enumeration order
    idx,           \* number of candidates the load loop has handled
    failed,        \* positions in json_paths whose fetch/read/parse raised
    loaded_data,   \* main's loaded_data
    summary_rows,  \* main's summary_rows
    stdout,        \* messages printed, in order
    stderr,        \* message of the fatal error, if any
    exit_code,     \* process exit status; Running while main() runs
    io,            \* I/O operations this run has attempted, in order
    csv_file,      \* analysis_summary.csv on disk
    plots_dir,     \* TRUE iff the plots directory exists
    plot_files,    \* image files on disk: file name -> plotted points
    run,           \* number of the current run of the program
    csv_before,    \* analysis_summary.csv as it was when the current run started
    plots_before,  \* image files as they were when the current run started
    data,          \* summarizer check: the document handed to summarize_mob
    record         \* summarizer check: the record summarize_mob returned

vars == <<args, requests, plt, pc, entries, json_paths, idx, failed, loaded_data,
          summary_rows, stdout, stderr, exit_code, io, csv_file, plots_dir,
          plot_files, run, csv_before, plots_before, data, record>>

(***************************************************************************)
(* Bounds of the model.                                                    *)
(***************************************************************************)
MaxFiles == 4        \* longest directory listing of a single run
MaxRerunFiles == 2   \* longest directory listing when runs are repeated
MaxRuns == 2         \* number of consecutive runs
MaxTactics == 2      \* longest tactics sequence of a generated document

(***************************************************************************)
(* JSON values.                                                            *)
(***************************************************************************)
Absent == "<absent>"      \* a key the document does not have (string fields)

JAbsent == [t |-> "absent", n |-> 0]
JNull == [t |-> "null", n |-> 0]
JNum(n) == [t |-> "num", n |-> n]

TsAbsent == [t |-> "absent", d |-> 0, ms |-> 0]
TsNull == [t |-> "null", d |-> 0, ms |-> 0]
TsStr == [t |-> "str", d |-> 0, ms |-> 0]       \* a non-empty string, e.g. "yesterday"
TsNum(d, ms) == [t |-> "num", d |-> d, ms |-> ms]

\* Python truthiness of a JSON value: None, 0 and a missing key (default) are falsy.
Truthy(v) == \/ v.t = "str"
             \/ v.t = "num" /\ (v.d # 0 \/ v.ms # 0)

(***************************************************************************)
(* epoch_to_iso.  An ISO-8601 string is the tuple                          *)
(* <<year, month, day, hour, minute, second, microsecond>> (the offset is  *)
(* always +00:00); the empty string is the empty tuple.                    *)
(***************************************************************************)
EmptyIso == << >>
RaisedIso == <<0>>        \* the conversion raised (no such string exists)

MinDay == 0 - 719162      \* 0001-01-01, datetime.MINYEAR
MaxDay == 2932896         \* 9999-12-31, datetime.MAXYEAR

\* days since 1970-01-01 -> <<year, month, day>> (proleptic Gregorian calendar)
CivilFromDays(days) ==
    LET z == days + 719468
        era == z \div 146097
        doe == z - era * 146097
        yoe == (doe - doe \div 1460 + doe \div 36524 - doe \div 146096) \div 365
        doy == doe - (365 * yoe + yoe \div 4 - yoe \div 100)
        mp == (5 * doy + 2) \div 153
        dd == doy - (153 * mp + 2) \div 5 + 1
        mm == IF mp < 10 THEN mp + 3 ELSE mp - 9
        yy == yoe + era * 400 + (IF mm <= 2 THEN 1 ELSE 0)
    IN <<yy, mm, dd>>

\* datetime.fromtimestamp(ms / 1000.0, tz=timezone.utc).isoformat(); raises for a
\* value that is no number and for an instant outside years 1..9999.  The
\* microsecond field is exact for instants of this era; ms / 1000.0 loses
\* microseconds only for years far in the future.
fromtimestamp_isoformat(v) ==
    IF v.t # "num" \/ v.d < MinDay \/ v.d > MaxDay
    THEN RaisedIso
    ELSE LET ymd == CivilFromDays(v.d)
             secs == v.ms \div 1000
         IN <<ymd[1], ymd[2], ymd[3],
              secs \div 3600, (secs \div 60) % 60, secs % 60, (v.ms % 1000) * 1000>>

epoch_to_iso_no_except(v) == fromtimestamp_isoformat(v)

epoch_to_iso(v) ==
    LET s == fromtimestamp_isoformat(v)
    IN IF s = RaisedIso THEN EmptyIso ELSE s

(***************************************************************************)
(* summarize_mob                                                           *)
(***************************************************************************)
\* round(x, 4) of a value in units of 1e-5, result in units of 1e-4; ties go to even
Round4(x) ==
    LET q == x \div 10
        r == x % 10
    IN IF r > 5 \/ (r = 5 /\ q % 2 = 1) THEN q + 1 ELSE q

\* v.get(key, default) for a key that is a number or missing
GetOr(v, default) == IF v.t = "absent" THEN default ELSE v

\* (v.get(key, 0.0) or 0.0) for a number, null or a missing key
OrZero(v) == IF v.t = "num" THEN v.n ELSE 0

StrOr(s, default) == IF s = Absent THEN default ELSE s

\* (data.get("batchReport", {}) or {}).get("trend", "")
Trend(batchReport) ==
    IF batchReport.t = "obj" THEN StrOr(batchReport.trend, "") ELSE ""

TopOfLast(tactics) == tactics[Len(tactics)]

\* top = tactics[0]
TopOf(tactics) == tactics[1]

SyncedAt(d) == IF Truthy(d.syncedAt) THEN epoch_to_iso(d.syncedAt) ELSE EmptyIso
LastUpdate(d) == IF Truthy(d.lastUpdate) THEN epoch_to_iso(d.lastUpdate) ELSE EmptyIso

summarize_mob(d) ==
    LET tactics == d.tactics
        hasTop == tactics # << >>
    IN [mobType        |-> StrOr(d.mobType, ""),
        submissions    |-> GetOr(d.submissions, JNum(0)).n,
        syncedAt       |-> SyncedAt(d),
        lastUpdate     |-> LastUpdate(d),
        topAction      |-> IF hasTop THEN TopOf(tactics).action ELSE "",
        topAvgReward   |-> IF hasTop THEN Round4(GetOr(TopOf(tactics).avgReward, JNum(0)).n) ELSE 0,
        topSuccessRate |-> IF hasTop THEN Round4(OrZero(TopOf(tactics).successRate)) ELSE 0,
        topCount       |-> IF hasTop THEN GetOr(TopOf(tactics).count, JNum(0)).n ELSE 0,
        trend          |-> Trend(d.batchReport)]

(***************************************************************************)
(* Documents.  TacticSpace and DocSpace are the documents the summarizer   *)
(* is checked on; Zombie .. ZombieV2 are the files of the directory.       *)
(* Reward values ending in 5 (3125, 9375) are exact binary fractions, so   *)
(* that round() sees a true tie.                                           *)
(***************************************************************************)
Tactic(a, r, s, c) == [action |-> a, avgReward |-> r, successRate |-> s, count |-> c]

Charge == Tactic("charge", JNum(123456), JNum(87650), JNum(10))
Flank == Tactic("flank", JNum(250000), JNull, JNum(3))
Retreat == Tactic("retreat", JNum(3125), JAbsent, JAbsent)
Ambush == Tactic("ambush", JAbsent, JNum(9375), JNum(1))

TacticSpace == {Charge, Flank, Retreat, Ambush}

BrAbsent == [t |-> "absent", trend |-> Absent]
BrNull == [t |-> "null", trend |-> Absent]
BrObj(trend) == [t |-> "obj", trend |-> trend]

TsValid == TsNum(19675, 80000123)      \* 2023-11-14T22:13:20.123000+00:00
TsYear10000 == TsNum(MaxDay + 1, 0)
TsBeforeYear1 == TsNum(MinDay - 1, 86399999)

TsSpace == {TsAbsent, TsNull, TsNum(0, 0), TsValid, TsStr, TsYear10000, TsBeforeYear1}

SeqsUpTo(S, n) == UNION {[1..k -> S] : k \in 0..n}

DocSpace ==
    [mobType     : {"zombie", Absent},
     submissions : {JNum(42), JAbsent},
     syncedAt    : TsSpace,
     lastUpdate  : {TsAbsent, TsValid, TsStr},
     tactics     : SeqsUpTo(TacticSpace, MaxTactics),
     batchReport : {BrAbsent, BrNull, BrObj("improving"), BrObj(Absent)}]

Doc(m, n, s, l, t, b) ==
    [mobType |-> m, submissions |-> n, syncedAt |-> s, lastUpdate |-> l,
     tactics |-> t, batchReport |-> b]

Zombie == Doc("zombie", JNum(42), TsValid, TsValid, <<Charge, Flank>>, BrObj("improving"))
Skeleton == Doc("skeleton", JNum(7), TsAbsent, TsNum(0, 0), << >>, BrNull)
Creeper == Doc(Absent, JAbsent, TsStr, TsYear10000, <<Retreat>>, BrAbsent)
ZombieV2 == Doc("zombie", JNum(43), TsNull, TsValid, <<Ambush, Charge>>, BrObj(Absent))
NoDoc == Doc(Absent, JAbsent, TsAbsent, TsAbsent, << >>, BrAbsent)

NoRecord == summarize_mob(NoDoc)

\* summary_rows = [summarize_mob(d) for d in loaded_data]
SummarizeAllButEmpty(loaded) ==
    LET kept == SelectSeq(loaded, LAMBDA d : d.tactics # << >>)
    IN [i \in 1..Len(kept) |-> summarize_mob(kept[i])]

SummarizeAll(loaded) == [i \in 1..Len(loaded) |-> summarize_mob(loaded[i])]

(***************************************************************************)
(* The command line and the directory.                                     *)
(***************************************************************************)
None == "<None>"          \* argparse's value of an option that was not given
Running == 0 - 1          \* exit_code while the process runs

Args(s, o, r, p, plots) == [source |-> s, owner |-> o, repo |-> r, path |-> p, plots |-> plots]

ArgSpace ==
    {Args("github", o, r, None, b) :
        o \in {"smokydastona", "", None}, r \in {"Way-Too-MCA", None}, b \in BOOLEAN}
    \cup {Args("local", None, None, p, b) : p \in {"federated-data", "", None}, b \in BOOLEAN}

\* Python truthiness of an option value
Given(a) == a # None /\ a # ""

SelectorsMissingBoth(a) ==
    IF a.source = "github" THEN ~(Given(a.owner) \/ Given(a.repo)) ELSE a.path = None

\* not (args.owner and args.repo) / not args.path
SelectorsMissing(a) ==
    IF a.source = "github" THEN ~(Given(a.owner) /\ Given(a.repo)) ELSE ~Given(a.path)

TacticsSuffix == "-tactics.json"

Entry(stem, suffix, type, doc) == [stem |-> stem, suffix |-> suffix, type |-> type, doc |-> doc]

EntrySpace ==
    {Entry("zombie", TacticsSuffix, "file", Zombie),
     Entry("skeleton", TacticsSuffix, "file", Skeleton),
     Entry("creeper", TacticsSuffix, "file", Creeper),
     Entry("zombie_v2", TacticsSuffix, "file", ZombieV2),
     Entry("README", ".md", "file", NoDoc),
     Entry("archive", TacticsSuffix, "dir", NoDoc)}

RerunEntrySpace ==
    {Entry("zombie", TacticsSuffix, "file", Zombie),
     Entry("creeper", TacticsSuffix, "file", Creeper),
     Entry("zombie_v2", TacticsSuffix, "file", ZombieV2)}

\* the listings of at most n entries with pairwise distinct names
Listings(S, n) ==
    UNION {{l \in [1..k -> S] :
                \A i, j \in 1..k : i # j => l[i].stem # l[j].stem} : k \in 0..n}

PathOf(a, e) ==
    (IF a.source = "github" THEN "federated-data" ELSE a.path) \o "/" \o e.stem \o e.suffix

\* the filter of line 134 (remote) and of load_local_files (local)
IsCandidate(a, e) ==
    IF a.source = "github"
    THEN e.type = "file" /\ e.suffix = TacticsSuffix
    ELSE e.suffix = TacticsSuffix

Candidates(a, l) == SelectSeq(l, LAMBDA e : IsCandidate(a, e))

(***************************************************************************)
(* write_csv and generate_plots, as functions of the disk.                 *)
(***************************************************************************)
CsvPath == "analysis_summary.csv"
PlotsPath == "plots"

NoFile == [exists |-> FALSE, header |-> << >>, rows |-> << >>]
NoPlots == [n \in {} |-> << >>]

\* list(rows[0].keys()): the keys of the dict summarize_mob builds, in its order
Fieldnames ==
    <<"mobType", "submissions", "syncedAt", "lastUpdate", "topAction",
      "topAvgReward", "topSuccessRate", "topCount", "trend">>

\* the cells DictWriter writes for a row, in the order of Fieldnames
Cells(r) ==
    <<r.mobType, r.submissions, r.syncedAt, r.lastUpdate, r.topAction,
      r.topAvgReward, r.topSuccessRate, r.topCount, r.trend>>

CsvOf(rows) ==
    [exists |-> TRUE, header |-> Fieldnames, rows |-> [i \in 1..Len(rows) |-> Cells(rows[i])]]

write_csv_no_guard(rows, file) ==
    [file |-> [exists |-> TRUE,
               header |-> IF rows = << >> THEN << >> ELSE Fieldnames,
               rows |-> [i \in 1..Len(rows) |-> Cells(rows[i])]],
     out |-> <<<<"Wrote CSV summary", CsvPath>>>>,
     io |-> <<<<"open_w", CsvPath, "ok">>>>]

write_csv_append(rows, file) ==
    IF rows = << >>
    THEN [file |-> file, out |-> <<<<"No data to write.", "">>>>, io |-> << >>]
    ELSE [file |-> [exists |-> TRUE, header |-> Fieldnames,
                    rows |-> file.rows \o [i \in 1..Len(rows) |-> Cells(rows[i])]],
          out |-> <<<<"Wrote CSV summary", CsvPath>>>>,
          io |-> <<<<"open_w", CsvPath, "ok">>>>]

\* write_csv(rows, out_path): the file afterwards, what it printed, the I/O it did
write_csv(rows, file) ==
    IF rows = << >>
    THEN [file |-> file, out |-> <<<<"No data to write.", "">>>>, io |-> << >>]
    ELSE [file |-> CsvOf(rows),
          out |-> <<<<"Wrote CSV summary", CsvPath>>>>,
          io |-> <<<<"open_w", CsvPath, "ok">>>>]

\* f"{mob}_reward_vs_success.png" under out_dir, mob = entry.get("mobType", "unknown")
PlotFile(d) == PlotsPath \o "/" \o StrOr(d.mobType, "unknown") \o "_reward_vs_success.png"

\* xs, ys and labels of the scatter plot
Points(d) ==
    [i \in 1..Len(d.tactics) |->
        [x |-> GetOr(d.tactics[i].avgReward, JNum(0)).n,
         y |-> OrZero(d.tactics[i].successRate),
         label |-> d.tactics[i].action]]

SavePlot(files, d) ==
    [n \in DOMAIN files \cup {PlotFile(d)} |-> IF n = PlotFile(d) THEN Points(d) ELSE files[n]]

\* the loop of generate_plots over all_data[i..], from disk state acc
RECURSIVE PlotLoop(_, _, _, _)
PlotLoop(all_data, i, acc, plotEmpty) ==
    IF i > Len(all_data) THEN acc
    ELSE LET d == all_data[i]
         IN IF d.tactics = << >> /\ ~plotEmpty
            THEN PlotLoop(all_data, i + 1, acc, plotEmpty)
            ELSE PlotLoop(all_data, i + 1,
                          [dir |-> acc.dir,
                           files |-> SavePlot(acc.files, d),
                           out |-> Append(acc.out, <<"Wrote plot", PlotFile(d)>>),
                           io |-> Append(acc.io, <<"savefig", PlotFile(d), "ok">>)],
                          plotEmpty)

NoChartingMessage == <<"matplotlib not available.", "">>

generate_plots_plot_empty(all_data, charting, dir, files) ==
    IF ~charting
    THEN [dir |-> dir, files |-> files, out |-> <<NoChartingMessage>>, io |-> << >>]
    ELSE PlotLoop(all_data, 1,
                  [dir |-> TRUE, files |-> files, out |-> << >>,
                   io |-> <<<<"makedirs", PlotsPath, "ok">>>>], TRUE)

generate_plots_mkdir_first(all_data, charting, dir, files) ==
    IF ~charting
    THEN [dir |-> TRUE, files |-> files, out |-> <<NoChartingMessage>>,
          io |-> <<<<"makedirs", PlotsPath, "ok">>>>]
    ELSE PlotLoop(all_data, 1,
                  [dir |-> TRUE, files |-> files, out |-> << >>,
                   io |-> <<<<"makedirs", PlotsPath, "ok">>>>], FALSE)

\* generate_plots(all_data, out_dir): the directory and the image files afterwards,
\* what it printed, the I/O it did
generate_plots(all_data, charting, dir, files) ==
    IF ~charting
    THEN [dir |-> dir, files |-> files, out |-> <<NoChartingMessage>>, io |-> << >>]
    ELSE PlotLoop(all_data, 1,
                  [dir |-> TRUE, files |-> files, out |-> << >>,
                   io |-> <<<<"makedirs", PlotsPath, "ok">>>>], FALSE)

(***************************************************************************)
(* main(), one action per step between two interactions with the outside.  *)
(***************************************************************************)
Remote == args.source = "github"

\* raise SystemExit(message) and an uncaught exception: status 1, message on stderr
Die(message) ==
    /\ pc' = "fatal"
    /\ exit_code' = 1
    /\ stderr' = message

\* lines 127-129 and 142-143
CheckSelectors ==
    /\ pc = "main"
    /\ IF SelectorsMissing(args)
       THEN Die(IF Remote THEN "--owner and --repo are required for source=github"
                          ELSE "--path is required for source=local")
       ELSE pc' = "list" /\ UNCHANGED <<exit_code, stderr>>
    /\ UNCHANGED <<args, requests, plt, entries, json_paths, idx, failed, loaded_data,
                   summary_rows, stdout, io, csv_file, plots_dir, plot_files, run,
                   csv_before, plots_before, data, record>>

\* the attempt to enumerate, as I/O with its outcome: the listing request of
\* fetch_github_directory (nothing is sent when requests is missing), or
\* os.path.isdir and os.listdir
ListIO(ok) ==
    IF Remote
    THEN (IF requests THEN <<<<"GET", "federated-data", IF ok THEN "ok" ELSE "error">>>>
                      ELSE << >>)
    ELSE IF ok THEN <<<<"isdir", args.path, "true">>, <<"listdir", args.path, "ok">>>>
               ELSE <<<<"isdir", args.path, "false">>>>

ListFailsContinues ==
    /\ pc = "list"
    /\ pc' = "load"
    /\ stdout' = Append(stdout, <<"Failed to list", "">>)
    /\ io' = io \o ListIO(FALSE)
    /\ UNCHANGED <<args, requests, plt, entries, json_paths, idx, failed, loaded_data,
                   summary_rows, stderr, exit_code, csv_file, plots_dir, plot_files,
                   run, csv_before, plots_before, data, record>>

\* fetch_github_directory raises (lines 130-133); load_local_files raises (lines 51-52)
ListFails ==
    /\ pc = "list"
    /\ Die(IF Remote THEN "Failed to list GitHub directory" ELSE "FileNotFoundError")
    /\ io' = io \o ListIO(FALSE)
    /\ UNCHANGED <<args, requests, plt, entries, json_paths, idx, failed, loaded_data,
                   summary_rows, stdout, csv_file, plots_dir, plot_files, run,
                   csv_before, plots_before, data, record>>

\* the listing succeeds and is filtered to the candidate files (lines 131-134, 53)
ListOk(S, n) ==
    /\ pc = "list"
    /\ Remote => requests
    /\ \E l \in Listings(S, n) :
          /\ entries' = l
          /\ json_paths' = Candidates(args, l)
    /\ io' = io \o ListIO(TRUE)
    /\ pc' = "load"
    /\ UNCHANGED <<args, requests, plt, idx, failed, loaded_data, summary_rows, stdout,
                   stderr, exit_code, csv_file, plots_dir, plot_files, run, csv_before,
                   plots_before, data, record>>

\* the fetch or read of one candidate file, as I/O with its outcome
FileIO(e, ok) ==
    <<IF Remote THEN "GET" ELSE "open_r", PathOf(args, e), IF ok THEN "ok" ELSE "error">>

\* one iteration of the load loop that appends a document (lines 137-138, 146-147)
LoadFile ==
    /\ pc = "load"
    /\ idx < Len(json_paths)
    /\ json_paths[idx + 1].type = "file"
    /\ loaded_data' = Append(loaded_data, json_paths[idx + 1].doc)
    /\ io' = Append(io, FileIO(json_paths[idx + 1], TRUE))
    /\ idx' = idx + 1
    /\ UNCHANGED <<args, requests, plt, pc, entries, json_paths, failed, summary_rows,
                   stdout, stderr, exit_code, csv_file, plots_dir, plot_files, run,
                   csv_before, plots_before, data, record>>

LoadFailsUncaught ==
    /\ pc = "load"
    /\ idx < Len(json_paths)
    /\ Die("Traceback")
    /\ failed' = failed \cup {idx + 1}
    /\ io' = Append(io, FileIO(json_paths[idx + 1], FALSE))
    /\ idx' = idx + 1
    /\ UNCHANGED <<args, requests, plt, entries, json_paths, loaded_data, summary_rows,
                   stdout, csv_file, plots_dir, plot_files, run, csv_before,
                   plots_before, data, record>>

\* one iteration of the load loop whose fetch, read or parse raises (lines 139-140, 148-149)
LoadFails ==
    /\ pc = "load"
    /\ idx < Len(json_paths)
    /\ failed' = failed \cup {idx + 1}
    /\ stdout' = Append(stdout, <<IF Remote THEN "Failed to fetch" ELSE "Failed to read",
                                  PathOf(args, json_paths[idx + 1])>>)
    /\ io' = Append(io, FileIO(json_paths[idx + 1], FALSE))
    /\ idx' = idx + 1
    /\ UNCHANGED <<args, requests, plt, pc, entries, json_paths, loaded_data,
                   summary_rows, stderr, exit_code, csv_file, plots_dir, plot_files,
                   run, csv_before, plots_before, data, record>>

\* lines 152-153, and the return of main() when --plots is not set
WriteSummary ==
    /\ pc = "load"
    /\ idx = Len(json_paths)
    /\ summary_rows' = SummarizeAll(loaded_data)
    /\ LET w == write_csv(SummarizeAll(loaded_data), csv_file)
       IN /\ csv_file' = w.file
          /\ stdout' = stdout \o w.out
          /\ io' = io \o w.io
    /\ IF args.plots
       THEN pc' = "plots" /\ UNCHANGED exit_code
       ELSE pc' = "done" /\ exit_code' = 0
    /\ UNCHANGED <<args, requests, plt, entries, json_paths, idx, failed, loaded_data,
                   stderr, plots_dir, plot_files, run, csv_before, plots_before, data,
                   record>>

\* lines 156-157, and the return of main()
GeneratePlots ==
    /\ pc = "plots"
    /\ LET g == generate_plots(loaded_data, plt, plots_dir, plot_files)
       IN /\ plots_dir' = g.dir
          /\ plot_files' = g.files
          /\ stdout' = stdout \o g.out
          /\ io' = io \o g.io
    /\ pc' = "done"
    /\ exit_code' = 0
    /\ UNCHANGED <<args, requests, plt, entries, json_paths, idx, failed, loaded_data,
                   summary_rows, stderr, csv_file, run, csv_before, plots_before, data,
                   record>>

\* the program is started again, on the disk the earlier runs left
Restart ==
    /\ pc \in {"done", "fatal"}
    /\ run < MaxRuns
    /\ run' = run + 1
    /\ args' \in ArgSpace
    /\ requests' \in BOOLEAN
    /\ plt' \in BOOLEAN
    /\ pc' = "main"
    /\ entries' = << >>
    /\ json_paths' = << >>
    /\ idx' = 0
    /\ failed' = {}
    /\ loaded_data' = << >>
    /\ summary_rows' = << >>
    /\ stdout' = << >>
    /\ stderr' = ""
    /\ exit_code' = Running
    /\ io' = << >>
    /\ csv_before' = csv_file
    /\ plots_before' = plot_files
    /\ UNCHANGED <<csv_file, plots_dir, plot_files, data, record>>

\* the summarizer applied to one document
Summarize ==
    /\ pc = "summarize"
    /\ record' = summarize_mob(data)
    /\ pc' = "summarized"
    /\ UNCHANGED <<args, requests, plt, entries, json_paths, idx, failed, loaded_data,
                   summary_rows, stdout, stderr, exit_code, io, csv_file, plots_dir,
                   plot_files, run, csv_before, plots_before, data>>

Fresh ==
    /\ entries = << >>
    /\ json_paths = << >>
    /\ idx = 0
    /\ failed = {}
    /\ loaded_data = << >>
    /\ summary_rows = << >>
    /\ stdout = << >>
    /\ stderr = ""
    /\ exit_code = Running
    /\ io = << >>
    /\ csv_file = NoFile
    /\ plots_dir = FALSE
    /\ plot_files = NoPlots
    /\ run = 1
    /\ csv_before = NoFile
    /\ plots_before = NoPlots

\* a run of the program on an empty output directory
Init ==
    /\ args \in ArgSpace
    /\ requests \in BOOLEAN
    /\ plt \in BOOLEAN
    /\ pc = "main"
    /\ Fresh
    /\ data = NoDoc
    /\ record = NoRecord

Next ==
    \/ CheckSelectors
    \/ ListFails
    \/ ListOk(EntrySpace, MaxFiles)
    \/ LoadFile
    \/ LoadFails
    \/ WriteSummary
    \/ GeneratePlots

Spec == Init /\ [][Next]_vars

\* consecutive runs of the program on the same output directory
NextRerun ==
    \/ CheckSelectors
    \/ ListFails
    \/ ListOk(RerunEntrySpace, MaxRerunFiles)
    \/ LoadFile
    \/ LoadFails
    \/ WriteSummary
    \/ GeneratePlots
    \/ Restart

SpecRerun == Init /\ [][NextRerun]_vars

\* summarize_mob on every document of DocSpace
InitSummarize ==
    /\ args = Args("local", None, None, "federated-data", FALSE)
    /\ requests = TRUE
    /\ plt = TRUE
    /\ pc = "summarize"
    /\ Fresh
    /\ data \in DocSpace
    /\ record = NoRecord

NextSummarize == Summarize

SpecSummarize == InitSummarize /\ [][NextSummarize]_vars

(***************************************************************************)
(* Properties.                                                             *)
(***************************************************************************)
Ops(kinds) == {i \in 1..Len(io) : io[i][1] \in kinds}

\* the documents of the first k candidates, without those at the positions in bad
RECURSIVE KeptDocs(_, _, _)
KeptDocs(paths, bad, k) ==
    IF k = 0 THEN << >>
    ELSE IF k \in bad THEN KeptDocs(paths, bad, k - 1)
         ELSE Append(KeptDocs(paths, bad, k - 1), paths[k].doc)

\* the paths of the candidates at the positions in bad, among the first k
RECURSIVE SkippedPaths(_, _, _)
SkippedPaths(paths, bad, k) ==
    IF k = 0 THEN << >>
    ELSE IF k \in bad THEN Append(SkippedPaths(paths, bad, k - 1), PathOf(args, paths[k]))
         ELSE SkippedPaths(paths, bad, k - 1)

SkipMessages == SelectSeq(stdout, LAMBDA m : m[1] \in {"Failed to fetch", "Failed to read"})

\* C1: whichever candidates fail, the load loop skips exactly those, with one
\* message each, loaded_data is the other candidates' documents in enumeration
\* order, the loop reaches the end of the list, and the run exits with status 0
\* with one summary row per loaded document; the run dies only before the loop.
C1_PartialFailure ==
    /\ pc \in {"load", "plots", "done"} =>
          /\ failed \subseteq 1..idx
          /\ loaded_data = KeptDocs(json_paths, failed, idx)
          /\ [i \in 1..Len(SkipMessages) |-> SkipMessages[i][2]]
                = SkippedPaths(json_paths, failed, idx)
    /\ pc \in {"plots", "done"} =>
          /\ idx = Len(json_paths)
          /\ Len(summary_rows) = Len(json_paths) - Cardinality(failed)
    /\ pc = "done" => exit_code = 0
    /\ pc = "fatal" => idx = 0 /\ Ops({"open_r"}) = {} /\ Cardinality(Ops({"GET"})) <= 1

C1_Witness ==
    /\ pc = "done"
    /\ args.source = "local"
    /\ Len(json_paths) = 4
    /\ failed = {2}
    /\ Len(loaded_data) = 3
    /\ Len(summary_rows) = 3
    /\ Len(SkipMessages) = 1
    /\ exit_code = 0

NotGiven(a) == a = None \/ a = ""

RequiredMissing ==
    \/ args.source = "github" /\ (NotGiven(args.owner) \/ NotGiven(args.repo))
    \/ args.source = "local" /\ NotGiven(args.path)

\* C2: when a selector the chosen source requires is missing, the run attempts no
\* I/O at all, leaves the CSV and the images alone, and once past the check
\* it has ended with a non-zero status and a message on stderr.
C2_MissingSelectorsFatalBeforeIO ==
    RequiredMissing =>
        /\ io = << >>
        /\ csv_file = csv_before /\ plot_files = plots_before /\ ~plots_dir
        /\ loaded_data = << >>
        /\ pc \in {"main", "fatal"}
        /\ pc = "fatal" => exit_code = 1 /\ stderr # ""

C2_Witness ==
    /\ pc = "fatal"
    /\ args.source = "github" /\ args.owner = "smokydastona" /\ args.repo = None
    /\ exit_code = 1
    /\ io = << >>

\* the enumeration was attempted and failed
EnumerationFailed ==
    /\ pc \notin {"main", "list"}
    /\ ~RequiredMissing
    /\ \/ args.source = "github" /\ ~requests
       \/ \E i \in 1..Len(io) : /\ io[i][1] \in {"GET", "isdir"}
                                /\ io[i][3] \in {"error", "false"}
                                /\ \A j \in 1..(i - 1) : io[j][1] \notin {"GET", "isdir"}

\* C3: when the remote listing call fails or the local path is no directory, the
\* run has ended with a non-zero status, has loaded no document, has summarized
\* nothing, and has written neither the CSV nor a plot.
C3_EnumerationFailureFatal ==
    EnumerationFailed =>
        /\ pc = "fatal"
        /\ exit_code = 1
        /\ loaded_data = << >> /\ summary_rows = << >> /\ idx = 0
        /\ Ops({"open_r", "open_w", "makedirs", "savefig", "listdir"}) = {}
        /\ Len(io) <= 1
        /\ csv_file = csv_before /\ plot_files = plots_before /\ ~plots_dir

C3_Witness ==
    /\ pc = "fatal"
    /\ args.source = "local"
    /\ io = <<<<"isdir", "federated-data", "false">>>>
    /\ exit_code = 1

\* C4: once the CSV step is over, there is one summary record per loaded document,
\* and for N > 0 loaded documents the CSV holds the header of the record's
\* field names and N rows, row i the summary of the i-th loaded document; a
\* document with empty tactics has its row, with "", 0.0, 0.0 and 0 as top fields.
C4_OneRowPerDocument ==
    pc \in {"plots", "done"} =>
        /\ Len(summary_rows) = Len(loaded_data)
        /\ loaded_data # << >> =>
              /\ csv_file.exists
              /\ csv_file.header = Fieldnames
              /\ Len(csv_file.rows) = Len(loaded_data)
              /\ \A i \in 1..Len(loaded_data) :
                    /\ summary_rows[i] = summarize_mob(loaded_data[i])
                    /\ csv_file.rows[i] = Cells(summarize_mob(loaded_data[i]))
                    /\ loaded_data[i].tactics = << >> =>
                          /\ csv_file.rows[i][5] = ""
                          /\ csv_file.rows[i][6] = 0
                          /\ csv_file.rows[i][7] = 0
                          /\ csv_file.rows[i][8] = 0

C4_Witness ==
    /\ pc = "done"
    /\ Len(loaded_data) = 3
    /\ loaded_data[2] = Skeleton
    /\ csv_file.exists
    /\ Len(csv_file.rows) = 3
    /\ csv_file.rows[2][1] = "skeleton"

\* C5: when the load loop ends with no document, the CSV step opens no file and
\* leaves the disk as it was, prints the diagnostic, and the run exits with 0.
C5_EmptyDatasetNoCsv ==
    pc \in {"plots", "done"} /\ loaded_data = << >> =>
        /\ Ops({"open_w"}) = {}
        /\ csv_file = csv_before
        /\ \E i \in 1..Len(stdout) : stdout[i] = <<"No data to write.", "">>
        /\ \A i \in 1..Len(stdout) : stdout[i][1] # "Wrote CSV summary"
        /\ pc = "done" => exit_code = 0

C5_Witness ==
    /\ pc = "done"
    /\ Len(json_paths) = 2
    /\ failed = {1, 2}
    /\ loaded_data = << >>
    /\ ~csv_file.exists
    /\ exit_code = 0

\* the image names a run generates
Generated ==
    IF args.plots /\ plt
    THEN {PlotFile(loaded_data[i]) : i \in {j \in 1..Len(loaded_data) : loaded_data[j].tactics # << >>}}
    ELSE {}

\* the last loaded document with non-empty tactics whose image is named n
LastNamed(n) ==
    LET S == {j \in 1..Len(loaded_data) :
                 loaded_data[j].tactics # << >> /\ PlotFile(loaded_data[j]) = n}
    IN loaded_data[CHOOSE j \in S : \A k \in S : k <= j]

\* C6 as stated: after a completed run the CSV and the images on disk are what
\* that run alone would produce from its input on an empty output directory.
C6_OnlyLastRunSurvives ==
    pc = "done" =>
        /\ csv_file = (IF loaded_data = << >> THEN NoFile ELSE CsvOf(SummarizeAll(loaded_data)))
        /\ DOMAIN plot_files = Generated

\* C6 amended: a completed run that loads a document replaces the CSV by its own
\* summary, one that loads none leaves the CSV as it was; every image the run
\* generates replaces the file of that name and every other image stays as it
\* was; doing the run's writes once more changes nothing on disk.
C6_OverwriteWhatIsWritten ==
    pc = "done" =>
        /\ csv_file = (IF loaded_data = << >> THEN csv_before
                                              ELSE CsvOf(SummarizeAll(loaded_data)))
        /\ DOMAIN plot_files = DOMAIN plots_before \cup Generated
        /\ \A n \in DOMAIN plot_files :
              plot_files[n] = IF n \in Generated THEN Points(LastNamed(n)) ELSE plots_before[n]
        /\ write_csv(summary_rows, csv_file).file = csv_file
        /\ args.plots =>
              /\ generate_plots(loaded_data, plt, plots_dir, plot_files).files = plot_files
              /\ generate_plots(loaded_data, plt, plots_dir, plot_files).dir = plots_dir

C6_Witness ==
    /\ pc = "done"
    /\ run = 2
    /\ csv_before.exists
    /\ loaded_data = << >>
    /\ csv_file = csv_before
    /\ DOMAIN plots_before # {}
    /\ ~args.plots
    /\ plot_files = plots_before

\* C7: for a document with non-empty tactics the top fields of the record are
\* those of the first entry, rounded to 4 places, whatever follows it, with an
\* absent or null successRate as 0.0; mobType and submissions are the document's.
C7_TopIsFirstEntry ==
    pc = "summarized" /\ data.tactics # << >> =>
        LET first == data.tactics[1]
        IN /\ record.topAction = first.action
           /\ record.topAvgReward =
                 (IF first.avgReward.t = "num" THEN Round4(first.avgReward.n) ELSE 0)
           /\ record.topSuccessRate =
                 (IF first.successRate.t \in {"absent", "null"} THEN 0
                  ELSE Round4(first.successRate.n))
           /\ record.topCount = (IF first.count.t = "num" THEN first.count.n ELSE 0)
           /\ record.mobType = (IF data.mobType = Absent THEN "" ELSE data.mobType)
           /\ record.submissions =
                 (IF data.submissions.t = "num" THEN data.submissions.n ELSE 0)

C7_Witness ==
    /\ pc = "summarized"
    /\ data.tactics = <<Flank, Charge>>
    /\ record.topAction = "flank"
    /\ record.topAvgReward = 25000
    /\ record.topSuccessRate = 0
    /\ record.topCount = 3

TimestampOk(v) == v.t = "num" /\ (v.d # 0 \/ v.ms # 0) /\ v.d >= MinDay /\ v.d <= MaxDay

IsIso(s) ==
    /\ Len(s) = 7
    /\ s[1] \in 1..9999 /\ s[2] \in 1..12 /\ s[3] \in 1..31
    /\ s[4] \in 0..23 /\ s[5] \in 0..59 /\ s[6] \in 0..59 /\ s[7] \in 0..999999

\* C8: summarize_mob returns a record whatever the two timestamps are: a missing,
\* null or 0 value and a value whose conversion fails (a string, an instant
\* outside years 1..9999) give the empty string, any other number gives an
\* ISO-8601 string, and the rest of the record is what it is without timestamps.
C8_TimestampsNeverRaise ==
    pc = "summarized" =>
        /\ record.syncedAt # RaisedIso /\ record.lastUpdate # RaisedIso
        /\ IF TimestampOk(data.syncedAt) THEN IsIso(record.syncedAt)
                                         ELSE record.syncedAt = EmptyIso
        /\ IF TimestampOk(data.lastUpdate) THEN IsIso(record.lastUpdate)
                                           ELSE record.lastUpdate = EmptyIso
        /\ [record EXCEPT !.syncedAt = EmptyIso, !.lastUpdate = EmptyIso]
              = summarize_mob([data EXCEPT !.syncedAt = TsAbsent, !.lastUpdate = TsAbsent])

C8_Witness ==
    /\ pc = "summarized"
    /\ data.syncedAt = TsYear10000
    /\ data.lastUpdate = TsStr
    /\ record.syncedAt = EmptyIso
    /\ record.lastUpdate = EmptyIso
    /\ record.topAction = "charge"

\* C9: a completed run with --plots and charting has created the output directory
\* and has saved exactly the images named after the loaded documents with
\* non-empty tactics, one savefig for each such document and none for a
\* document with empty tactics; each image shows a document of its name.
C9_OneImagePerNonEmptyDocument ==
    pc = "done" /\ args.plots /\ plt =>
        LET nonEmpty == {j \in 1..Len(loaded_data) : loaded_data[j].tactics # << >>}
            names == {StrOr(loaded_data[j].mobType, "unknown") : j \in nonEmpty}
            saved == Ops({"savefig"})
        IN /\ plots_dir
           /\ {io[i][2] : i \in saved} = {"plots/" \o n \o "_reward_vs_success.png" : n \in names}
           /\ DOMAIN plot_files = DOMAIN plots_before \cup {io[i][2] : i \in saved}
           /\ Cardinality(saved) = Cardinality(nonEmpty)
           /\ \A i \in saved :
                 \E j \in nonEmpty : /\ io[i][2] = PlotFile(loaded_data[j])
                                     /\ Len(plot_files[io[i][2]]) > 0
           /\ \A n \in DOMAIN plot_files \ DOMAIN plots_before :
                 \E j \in nonEmpty : /\ n = PlotFile(loaded_data[j])
                                     /\ plot_files[n] = Points(loaded_data[j])

C9_Witness ==
    /\ pc = "done" /\ args.plots /\ plt
    /\ loaded_data = <<Zombie, Skeleton, Creeper>>
    /\ DOMAIN plot_files = {"plots/zombie_reward_vs_success.png",
                            "plots/unknown_reward_vs_success.png"}
    /\ plots_dir

\* C10: a completed run with --plots and without charting has printed the
\* diagnostic last, has saved no image and created no directory, exits with 0,
\* and leaves the CSV the summary step wrote, as a run without --plots does.
C10_NoChartingIsNoOp ==
    pc = "done" /\ args.plots /\ ~plt =>
        /\ exit_code = 0
        /\ Ops({"makedirs", "savefig"}) = {}
        /\ ~plots_dir
        /\ plot_files = plots_before
        /\ stdout # << >> /\ stdout[Len(stdout)] = NoChartingMessage
        /\ csv_file = (IF loaded_data = << >> THEN csv_before
                                              ELSE CsvOf(SummarizeAll(loaded_data)))
        /\ \A i \in Ops({"open_w"}) : i = Len(io)

C10_Witness ==
    /\ pc = "done" /\ args.plots /\ ~plt
    /\ loaded_data = <<Zombie, Creeper>>
    /\ csv_file.exists
    /\ plot_files = NoPlots
    /\ ~plots_dir
    /\ exit_code = 0

====
